---- MODULE Spec2Model ----
(***************************************************************************)
(* hubber_xml: synchronisation of a supplier XML feed with the `products`  *)
(* table.  The model follows src/src/parser.rs (parse_offers) and          *)
(* src/src/process.rs (convert_offer_to_product, sync_products_chunk,      *)
(* mark_missing_as_unavailable).                                           *)
(*                                                                         *)
(* Option<T> is modelled as a sequence of length 0 (None) or 1 (Some(x)).  *)
(* f32 and i32 values are modelled by the integers they denote.            *)
(***************************************************************************)
EXTENDS Integers, Sequences, FiniteSets, TLC

VARIABLES
    opts,             \* Opts: the command line flags of the run
    pc,               \* position of the run inside parse_offers and its callees
    offer,            \* Option<Offer>: the offer the inner loop is filling
    offer_field,      \* OfferFields: the child element whose text is awaited
    stat,             \* ProcessedStat
    products_bucket,  \* Vec<NewProduct> waiting for the next chunk
    all_offer_ids,    \* HashSet<String> handed to mark_missing_as_unavailable
    products,         \* the `products` table: row i has id = i
    sync,             \* the frame of sync_products_chunk
    sweep,            \* the frame of mark_missing_as_unavailable
    feed,             \* second runs only: the offer elements still to be read
    date_modified,    \* parser.rs:91, Utc::now() at the start of the run
    hist              \* history of the run (observation only, never read by the program)

vars == <<opts, pc, offer, offer_field, stat, products_bucket, all_offer_ids,
          products, sync, sweep, feed, date_modified, hist>>

---------------------------------------------------------------------------
(* Bounds of the model *)

\* parser.rs:242 flushes the bucket at a literal 1000 candidates; scaled down
BUCKET_LEN == 2
\* main.rs:36 CHUNK_SIZE = 1000, the page size of the missing sweep; scaled down
CHUNK_SIZE == 2
\* offer elements read at document level in one run
MaxOffers == 3
\* offer elements read at document level in one run of the event-level parser
MaxParserOffers == 1
\* rows of the initial catalog
MaxRows == 2

AVAILABLE == 1
NOT_AVAILABLE == 0

---------------------------------------------------------------------------
(* Option<T> *)

None == <<>>
Some(x) == <<x>>
IsSome(o) == o # <<>>
Unwrap(o) == o[1]

RECURSIVE SeqSum(_)
SeqSum(s) == IF s = <<>> THEN 0 ELSE Head(s) + SeqSum(Tail(s))

---------------------------------------------------------------------------
(* The feed as quick_xml delivers it: events *)

\* text contents that occur in the modelled feeds
Words == {"7", "7.0", "x", "USD"}

\* str::parse::<f32>: "7" and "7.0" denote the same float, other words fail
ParseF32(value) ==
    CASE value = "7"   -> Some(7)
      [] value = "7.0" -> Some(7)
      [] value = "10"  -> Some(10)
      [] OTHER         -> None

\* str::parse::<i32>: digits only; "7.0" is no integer
ParseI32(value) ==
    CASE value = "7"   -> Some(7)
      [] value = "10"  -> Some(10)
      [] OTHER         -> None

Currencies == {"UAH", "USD", "EUR", "RUB", "BYR", "KZT"}

\* a variant that takes every unknown literal for "not available"
ParseAvailableLenient(value) ==
    CASE value = ""      -> Some(NOT_AVAILABLE)
      [] value = "true"  -> Some(AVAILABLE)
      [] value = "1"     -> Some(AVAILABLE)
      [] value = "false" -> Some(NOT_AVAILABLE)
      [] value = "0"     -> Some(NOT_AVAILABLE)
      [] OTHER           -> Some(NOT_AVAILABLE)

\* lines 108-117, the `available` attribute: None stands for the
\* Err(format_err!(..)) return
ParseAvailable(value) ==
    CASE value = ""      -> Some(NOT_AVAILABLE)
      [] value = "true"  -> Some(AVAILABLE)
      [] value = "1"     -> Some(AVAILABLE)
      [] value = "false" -> Some(NOT_AVAILABLE)
      [] value = "0"     -> Some(NOT_AVAILABLE)
      [] OTHER           -> None

\* an Err item of the attribute iterator: the attribute cannot be read
ErrAttr == [ok |-> FALSE, key |-> "", value |-> ""]

\* line 101, e.attributes(): the items the iterator yields for the attributes
\* written in the tag; an attribute that cannot be read, and one whose key
\* repeats the key of an earlier attribute of the tag, is an Err item
Attributes(attrs) ==
    [i \in 1..Len(attrs) |->
        IF attrs[i].ok /\ \A j \in 1..(i - 1) : attrs[j].key # attrs[i].key
        THEN attrs[i] ELSE ErrAttr]

\* lines 101-121, the attribute loop of an offer element over the items of the
\* iterator: the first Err item and the first unknown `available` literal end
\* the run (err), `id` and `available` items set the two locals
RECURSIVE ParseAttrs(_, _, _)
ParseAttrs(attrs, offer_id, available) ==
    IF attrs = <<>>
    THEN [err |-> FALSE, offer_id |-> offer_id, available |-> available]
    ELSE LET attr == Head(attrs) IN
         IF ~attr.ok
         THEN [err |-> TRUE, offer_id |-> offer_id, available |-> available]
         ELSE IF attr.key = "id"
         THEN ParseAttrs(Tail(attrs), Some(attr.value), available)
         ELSE IF attr.key = "available"
         THEN LET a == ParseAvailable(attr.value) IN
              IF IsSome(a)
              THEN ParseAttrs(Tail(attrs), offer_id, Unwrap(a))
              ELSE [err |-> TRUE, offer_id |-> offer_id, available |-> available]
         ELSE ParseAttrs(Tail(attrs), offer_id, available)

\* Offer::new
OfferNew(offer_id, available) ==
    [offer_id |-> offer_id, available |-> available,
     price |-> None, old_price |-> None, currency_id |-> None,
     category_id |-> None, name |-> None, description |-> None,
     vendor |-> None, vendor_code |-> None]

\* Event::Start inside an offer: the known child elements select the field
FieldOfTag(name, field) ==
    CASE name = "price"       -> "Price"
      [] name = "oldprice"    -> "OldPrice"
      [] name = "currencyId"  -> "CurrencyId"
      [] name = "categoryId"  -> "CategoryId"
      [] name = "name"        -> "Name"
      [] name = "description" -> "Description"
      [] name = "vendor"      -> "Vendor"
      [] name = "vendorCode"  -> "VendorCode"
      [] OTHER                -> field

\* a variant that stores whatever currency text it reads
AssignTextAnyCurrency(o, field, value) ==
    CASE field = "Price" ->
            IF IsSome(ParseF32(value)) THEN [o EXCEPT !.price = ParseF32(value)] ELSE o
      [] field = "OldPrice" -> [o EXCEPT !.old_price = ParseF32(value)]
      [] field = "CurrencyId" -> [o EXCEPT !.currency_id = Some(value)]
      [] field = "CategoryId" ->
            IF IsSome(ParseI32(value)) THEN [o EXCEPT !.category_id = ParseI32(value)] ELSE o
      [] field = "Name" -> [o EXCEPT !.name = Some(value)]
      [] field = "Description" -> [o EXCEPT !.description = Some(value)]
      [] field = "Vendor" -> [o EXCEPT !.vendor = Some(value)]
      [] field = "VendorCode" -> [o EXCEPT !.vendor_code = Some(value)]
      [] OTHER -> o

\* a variant whose price is cleared by a text that is no number
AssignTextClearsPrice(o, field, value) ==
    CASE field = "Price" -> [o EXCEPT !.price = ParseF32(value)]
      [] field = "OldPrice" -> [o EXCEPT !.old_price = ParseF32(value)]
      [] field = "CurrencyId" ->
            IF value \in Currencies THEN [o EXCEPT !.currency_id = Some(value)]
            ELSE IF value = "" THEN [o EXCEPT !.currency_id = Some("UAH")]
            ELSE o
      [] field = "CategoryId" ->
            IF IsSome(ParseI32(value)) THEN [o EXCEPT !.category_id = ParseI32(value)] ELSE o
      [] field = "Name" -> [o EXCEPT !.name = Some(value)]
      [] field = "Description" -> [o EXCEPT !.description = Some(value)]
      [] field = "Vendor" -> [o EXCEPT !.vendor = Some(value)]
      [] field = "VendorCode" -> [o EXCEPT !.vendor_code = Some(value)]
      [] OTHER -> o

\* Event::Text inside an offer: the text is assigned to the current field
AssignText(o, field, value) ==
    CASE field = "Price" ->
            IF IsSome(ParseF32(value)) THEN [o EXCEPT !.price = ParseF32(value)] ELSE o
      [] field = "OldPrice" -> [o EXCEPT !.old_price = ParseF32(value)]
      [] field = "CurrencyId" ->
            IF value \in Currencies THEN [o EXCEPT !.currency_id = Some(value)]
            ELSE IF value = "" THEN [o EXCEPT !.currency_id = Some("UAH")]
            ELSE o
      [] field = "CategoryId" ->
            IF IsSome(ParseI32(value)) THEN [o EXCEPT !.category_id = ParseI32(value)] ELSE o
      [] field = "Name" -> [o EXCEPT !.name = Some(value)]
      [] field = "Description" -> [o EXCEPT !.description = Some(value)]
      [] field = "Vendor" -> [o EXCEPT !.vendor = Some(value)]
      [] field = "VendorCode" -> [o EXCEPT !.vendor_code = Some(value)]
      [] OTHER -> o

---------------------------------------------------------------------------
(* process.rs: the validator *)

\* a variant that asks for the name only
ConvertNameOnly(o) ==
    IF o.name = None THEN None
    ELSE Some([offer_id |-> o.offer_id, hub_stock_id |-> o.offer_id,
               available |-> o.available,
               categoryId |-> IF IsSome(o.category_id) THEN Unwrap(o.category_id) ELSE 0,
               name |-> Unwrap(o.name),
               price |-> IF IsSome(o.price) THEN Unwrap(o.price) ELSE 0,
               oldprice |-> o.old_price, currencyId |-> o.currency_id,
               description |-> o.description])

\* lines 20-47
convert_offer_to_product(o) ==
    IF o.name = None THEN None
    ELSE IF o.category_id = None THEN None
    ELSE IF o.price = None THEN None
    ELSE Some([offer_id |-> o.offer_id, hub_stock_id |-> o.offer_id,
               available |-> o.available,
               categoryId |-> Unwrap(o.category_id),
               name |-> Unwrap(o.name),
               price |-> Unwrap(o.price),
               oldprice |-> o.old_price, currencyId |-> o.currency_id,
               description |-> o.description])

---------------------------------------------------------------------------
(* parser.rs: parse_offers.  The frame of the function is gathered in a     *)
(* record so that one event (the event-level specification) and a whole     *)
(* offer element (the run-level specifications) go through the same code.   *)

Frame == [pc |-> pc, offer |-> offer, offer_field |-> offer_field, stat |-> stat,
          products_bucket |-> products_bucket, all_offer_ids |-> all_offer_ids,
          sync |-> sync, hist |-> hist]

Install(f) ==
    /\ pc' = f.pc
    /\ offer' = f.offer
    /\ offer_field' = f.offer_field
    /\ stat' = f.stat
    /\ products_bucket' = f.products_bucket
    /\ all_offer_ids' = f.all_offer_ids
    /\ sync' = f.sync
    /\ hist' = f.hist

IsOfferElement(e) == e.type \in {"Start", "Empty"} /\ e.name = "offer"

HasId(attrs) == \E i \in 1..Len(attrs) : attrs[i].key = "id"

\* the literal of the element's `available` attribute, None without one
RECURSIVE AvailableLiteral(_)
AvailableLiteral(attrs) ==
    IF attrs = <<>> THEN None
    ELSE IF Head(attrs).key = "available" THEN Some(Head(attrs).value)
    ELSE AvailableLiteral(Tail(attrs))

\* history: an offer element was read from the feed (at either nesting level)
NoteElement(h, e) ==
    IF IsOfferElement(e)
    THEN [h EXCEPT !.elems = @ + 1,
                   !.id_elems = @ + (IF HasId(e.attrs) THEN 1 ELSE 0),
                   !.bad_lit = @ \/ (/\ IsSome(AvailableLiteral(e.attrs))
                                     /\ AvailableLiteral(e.attrs)[1] \notin
                                            {"", "true", "1", "false", "0"})]
    ELSE h

\* history, kept when hist.watch is set: the last event read inside the offer,
\* and whether a closing tag was read with no known opening tag after it
NoteInner(h, e) ==
    IF ~h.watch THEN h
    ELSE [h EXCEPT !.ev = Some(e),
                   !.closed = CASE e.type = "End" -> TRUE
                                [] e.type = "Start" /\ FieldOfTag(e.name, "None") # "None"
                                      -> FALSE
                                [] OTHER -> @]

\* a variant that starts the sweep before the last chunk is reconciled
AfterLoopSweepFirst(f) ==
    IF opts.mark_missing_unavailable
    THEN [f EXCEPT !.pc = "sweep_scan"]
    ELSE IF f.products_bucket # <<>>
    THEN [f EXCEPT !.pc = "sync_lookup", !.sync.ret = "final"]
    ELSE [f EXCEPT !.pc = "done"]

\* lines 276-292 up to the call of sync_products_chunk: the feed has ended
AfterLoop(f) ==
    IF f.products_bucket # <<>>
    THEN [f EXCEPT !.pc = "sync_lookup", !.sync.ret = "final"]
    ELSE [f EXCEPT !.pc = IF opts.mark_missing_unavailable THEN "sweep_scan" ELSE "done"]

\* a variant that puts each new candidate at the front of the bucket
FinishOfferNewestFirst(f) ==
    LET product == convert_offer_to_product(Unwrap(f.offer))
        f1 == [f EXCEPT !.stat.total_offers = @ + 1]
        g == IF IsSome(product)
             THEN [f1 EXCEPT !.all_offer_ids =
                                IF opts.mark_missing_unavailable
                                THEN @ \cup {Unwrap(product).offer_id} ELSE @,
                             !.products_bucket = <<Unwrap(product)>> \o @,
                             !.stat.parsed_offers = @ + 1,
                             !.hist.accepted = Append(@, Unwrap(product).offer_id)]
             ELSE [f1 EXCEPT !.stat.ignored_offers = @ + 1]
    IN  [g EXCEPT !.offer = None, !.offer_field = "None",
                  !.pc = IF Len(g.products_bucket) = BUCKET_LEN
                         THEN "sync_lookup" ELSE "outer",
                  !.sync.ret = IF Len(g.products_bucket) = BUCKET_LEN
                               THEN "loop" ELSE @]

\* a variant that lets the bucket grow one candidate past the limit
FinishOfferLateFlush(f) ==
    LET product == convert_offer_to_product(Unwrap(f.offer))
        f1 == [f EXCEPT !.stat.total_offers = @ + 1]
        g == IF IsSome(product)
             THEN [f1 EXCEPT !.all_offer_ids =
                                IF opts.mark_missing_unavailable
                                THEN @ \cup {Unwrap(product).offer_id} ELSE @,
                             !.products_bucket = Append(@, Unwrap(product)),
                             !.stat.parsed_offers = @ + 1,
                             !.hist.accepted = Append(@, Unwrap(product).offer_id)]
             ELSE [f1 EXCEPT !.stat.ignored_offers = @ + 1]
    IN  [g EXCEPT !.offer = None, !.offer_field = "None",
                  !.pc = IF Len(g.products_bucket) = BUCKET_LEN + 1
                         THEN "sync_lookup" ELSE "outer",
                  !.sync.ret = IF Len(g.products_bucket) = BUCKET_LEN + 1
                               THEN "loop" ELSE @]

\* lines 232-251 up to the call of sync_products_chunk: the offer is complete
\* (hist.accepted notes the ids of the candidates in the order of the feed)
FinishOffer(f) ==
    LET product == convert_offer_to_product(Unwrap(f.offer))
        f1 == [f EXCEPT !.stat.total_offers = @ + 1]
        g == IF IsSome(product)
             THEN [f1 EXCEPT !.all_offer_ids =
                                IF opts.mark_missing_unavailable
                                THEN @ \cup {Unwrap(product).offer_id} ELSE @,
                             !.products_bucket = Append(@, Unwrap(product)),
                             !.stat.parsed_offers = @ + 1,
                             !.hist.accepted = Append(@, Unwrap(product).offer_id)]
             ELSE [f1 EXCEPT !.stat.ignored_offers = @ + 1]
    IN  [g EXCEPT !.offer = None, !.offer_field = "None",
                  !.pc = IF Len(g.products_bucket) = BUCKET_LEN
                         THEN "sync_lookup" ELSE "outer",
                  !.sync.ret = IF Len(g.products_bucket) = BUCKET_LEN
                               THEN "loop" ELSE @]

\* lines 94-127 and 256-263: one event read by the outer loop
OnOuterEvent(f, e) ==
    LET h == [NoteElement(f.hist, e) EXCEPT
                  !.lit = IF IsOfferElement(e) THEN AvailableLiteral(e.attrs) ELSE @]
        f1 == [f EXCEPT !.hist = h]
    IN  CASE IsOfferElement(e) ->
                LET r == ParseAttrs(Attributes(e.attrs), None, NOT_AVAILABLE) IN
                IF r.err THEN [f1 EXCEPT !.pc = "fatal"]
                ELSE IF r.offer_id = None THEN f1
                ELSE [f1 EXCEPT !.offer = Some(OfferNew(Unwrap(r.offer_id), r.available)),
                                !.offer_field = "None",
                                !.hist.ev = None,
                                !.hist.closed = FALSE,
                                !.pc = "inner"]
          [] e.type = "Eof" -> AfterLoop(f1)
          [] e.type = "Err" -> [f1 EXCEPT !.pc = "fatal"]
          [] OTHER -> f1

\* a variant whose current field outlives the closing tag of its element
OnInnerEventKeepsField(f, e) ==
    LET f1 == [f EXCEPT !.hist = NoteInner(NoteElement(f.hist, e), e)]
    IN  CASE e.type = "Start" ->
                [f1 EXCEPT !.offer_field = FieldOfTag(e.name, f.offer_field)]
          [] e.type = "Text" ->
                [f1 EXCEPT !.offer = Some(AssignText(Unwrap(f.offer), f.offer_field, e.text))]
          [] e.type = "End" ->
                IF e.name = "offer" THEN FinishOffer(f1)
                ELSE f1
          [] e.type = "Eof" -> [f1 EXCEPT !.pc = "panic"]
          [] e.type = "Err" -> [f1 EXCEPT !.pc = "fatal"]
          [] OTHER -> f1

\* lines 131-229: one event read by the inner loop
OnInnerEvent(f, e) ==
    LET f1 == [f EXCEPT !.hist = NoteInner(NoteElement(f.hist, e), e)]
    IN  CASE e.type = "Start" ->
                [f1 EXCEPT !.offer_field = FieldOfTag(e.name, f.offer_field)]
          [] e.type = "Text" ->
                [f1 EXCEPT !.offer = Some(AssignText(Unwrap(f.offer), f.offer_field, e.text))]
          [] e.type = "End" ->
                IF e.name = "offer" THEN FinishOffer(f1)
                ELSE [f1 EXCEPT !.offer_field = "None"]
          [] e.type = "Eof" -> [f1 EXCEPT !.pc = "panic"]
          [] e.type = "Err" -> [f1 EXCEPT !.pc = "fatal"]
          [] OTHER -> f1

---------------------------------------------------------------------------
(* The events of the modelled feeds *)

StartEv(n, a) == [type |-> "Start", name |-> n, attrs |-> a]
EmptyEv(n, a) == [type |-> "Empty", name |-> n, attrs |-> a]
TextEv(t) == [type |-> "Text", text |-> t]
EndEv(n) == [type |-> "End", name |-> n]
EofEv == [type |-> "Eof"]
ErrEv == [type |-> "Err"]
CDataEv(t) == [type |-> "CData", text |-> t]

Attr(k, v) == [ok |-> TRUE, key |-> k, value |-> v]

OfferIds == {"A", "B"}
AvailableLiterals == {"", "true", "1", "false", "0", "yes"}

\* tags with an attribute that cannot be read, or with a repeated attribute
MalformedAttrLists ==
    { <<ErrAttr>>,
      <<Attr("id", "A"), ErrAttr>>,
      <<ErrAttr, Attr("id", "A")>>,
      <<Attr("id", "A"), Attr("available", "true"), ErrAttr>>,
      <<Attr("id", "A"), Attr("id", "B")>> }

AttrLists ==
    { ida \o ava : ida \in {<<>>} \cup {<<Attr("id", i)>> : i \in OfferIds},
                   ava \in {<<>>} \cup {<<Attr("available", v)>> : v \in AvailableLiterals} }
    \cup MalformedAttrLists

OfferEvents ==
    {StartEv("offer", a) : a \in AttrLists} \cup {EmptyEv("offer", a) : a \in AttrLists}

OuterEvents ==
    OfferEvents \cup {StartEv("shop", <<>>), EndEv("shop"), TextEv("x"), EofEv, ErrEv}

InnerTags == {"price", "oldprice", "currencyId", "categoryId", "name", "param"}

InnerEvents ==
    {StartEv(n, <<>>) : n \in InnerTags}
    \cup {StartEv("offer", <<Attr("id", "B")>>), EmptyEv("offer", <<Attr("id", "B")>>)}
    \cup {EmptyEv("price", <<>>), CDataEv("7")}
    \cup {TextEv(t) : t \in Words}
    \cup {EndEv("offer"), EndEv("price"), EndEv("param"), EofEv, ErrEv}

---------------------------------------------------------------------------
(* Event-level actions *)

ReadOuterEvent ==
    /\ pc = "outer"
    /\ \E e \in OuterEvents :
          /\ IsOfferElement(e) => hist.elems < MaxParserOffers
          /\ Install(OnOuterEvent(Frame, e))
    /\ UNCHANGED <<opts, date_modified, products, sweep, feed>>

ReadInnerEvent ==
    /\ pc = "inner"
    /\ \E e \in InnerEvents :
          /\ IsOfferElement(e) => hist.elems < MaxParserOffers
          /\ Install(OnInnerEvent(Frame, e))
    /\ UNCHANGED <<opts, date_modified, products, sweep, feed>>

---------------------------------------------------------------------------
(* process.rs: sync_products_chunk *)

\* lines 71-73: the rows whose hub_stock_id is one of the chunk's offer ids
FoundProducts(table, parsed_products) ==
    { i \in 1..Len(table) :
        /\ IsSome(table[i].hub_stock_id)
        /\ \E j \in 1..Len(parsed_products) :
              parsed_products[j].offer_id = Unwrap(table[i].hub_stock_id) }

\* lines 74-82: the HashMap keeps one row per hub_stock_id; the store returns the
\* rows in no promised order, so any of the rows of a key may be the one kept
FoundMaps(table, parsed_products) ==
    LET found == FoundProducts(table, parsed_products)
        keys == { Unwrap(table[i].hub_stock_id) : i \in found }
    IN  { m \in SUBSET { [key |-> Unwrap(table[i].hub_stock_id), id |-> i] : i \in found } :
            \A k \in keys : Cardinality({ x \in m : x.key = k }) = 1 }

ContainsKey(m, k) == \E x \in m : x.key = k
Get(m, k) == CHOOSE x \in m : x.key = k

\* line 90
AvailableChanged(p, found_product) == Some(p.available) # found_product.available

\* a variant that compares the price alone
PriceChangedPriceOnly(p, found_product) == p.price # found_product.price

\* lines 97-99
PriceChanged(p, found_product) ==
    \/ p.price # found_product.price
    \/ p.oldprice # found_product.oldprice
    \/ p.currencyId # found_product.currencyId

\* a variant whose price group leaves the old price out
UpdateProductKeepsOldprice(p, found_product) ==
    [available |-> IF AvailableChanged(p, found_product) /\ opts.update_available
                   THEN Some(p.available) ELSE None,
     price     |-> IF PriceChanged(p, found_product) /\ opts.update_price
                   THEN Some(p.price) ELSE None,
     oldprice  |-> None,
     currencyId |-> IF PriceChanged(p, found_product) /\ opts.update_price
                   THEN Some(p.currencyId) ELSE None]

\* lines 88-108: the ModProduct of one matched candidate; a field is Some(v)
\* when the statement sets it (oldprice and currencyId: Some(None) sets NULL)
UpdateProduct(p, found_product) ==
    [available |-> IF AvailableChanged(p, found_product) /\ opts.update_available
                   THEN Some(p.available) ELSE None,
     price     |-> IF PriceChanged(p, found_product) /\ opts.update_price
                   THEN Some(p.price) ELSE None,
     oldprice  |-> IF PriceChanged(p, found_product) /\ opts.update_price
                   THEN Some(p.oldprice) ELSE None,
     currencyId |-> IF PriceChanged(p, found_product) /\ opts.update_price
                   THEN Some(p.currencyId) ELSE None]

ShouldUpdate(p, found_product) ==
    \/ AvailableChanged(p, found_product) /\ opts.update_available
    \/ PriceChanged(p, found_product) /\ opts.update_price

\* lines 111-135: the UPDATE statement appended to raw_update_queries
UpdateQuery(p, found_product) ==
    [set |-> UpdateProduct(p, found_product), renew_date |-> date_modified,
     to_renew |-> 1, id |-> found_product.id]

\* lines 85-145: the loop over the chunk, in the order of the chunk
RECURSIVE DiffLoop(_, _, _, _)
DiffLoop(parsed_products, table, m, acc) ==
    IF parsed_products = <<>> THEN acc
    ELSE LET p == Head(parsed_products) IN
         IF ~ContainsKey(m, p.hub_stock_id)
         THEN DiffLoop(Tail(parsed_products), table, m, acc)
         ELSE LET found_product == table[Get(m, p.hub_stock_id).id]
                  a1 == IF AvailableChanged(p, found_product)
                        THEN [acc EXCEPT !.stat.updated_available = @ + 1] ELSE acc
                  a2 == IF PriceChanged(p, found_product)
                        THEN [a1 EXCEPT !.stat.updated_price = @ + 1] ELSE a1
                  a3 == IF ShouldUpdate(p, found_product)
                        THEN [a2 EXCEPT !.raw_update_queries =
                                            Append(@, UpdateQuery(p, found_product))]
                        ELSE a2
              IN DiffLoop(Tail(parsed_products), table, m, a3)

\* a variant that leaves the needs-renew marker alone
ApplyQueryNoRenew(table, q) ==
    [i \in 1..Len(table) |->
        IF table[i].id # q.id THEN table[i]
        ELSE [table[i] EXCEPT
                !.available  = IF IsSome(q.set.available) THEN q.set.available ELSE @,
                !.price      = IF IsSome(q.set.price) THEN Unwrap(q.set.price) ELSE @,
                !.oldprice   = IF IsSome(q.set.oldprice) THEN Unwrap(q.set.oldprice) ELSE @,
                !.currencyId = IF IsSome(q.set.currencyId) THEN Unwrap(q.set.currencyId) ELSE @,
                !.renew_date = Some(q.renew_date)]]

\* the store executes one UPDATE ... WHERE id = q.id
ApplyQuery(table, q) ==
    [i \in 1..Len(table) |->
        IF table[i].id # q.id THEN table[i]
        ELSE [table[i] EXCEPT
                !.available  = IF IsSome(q.set.available) THEN q.set.available ELSE @,
                !.price      = IF IsSome(q.set.price) THEN Unwrap(q.set.price) ELSE @,
                !.oldprice   = IF IsSome(q.set.oldprice) THEN Unwrap(q.set.oldprice) ELSE @,
                !.currencyId = IF IsSome(q.set.currencyId) THEN Unwrap(q.set.currencyId) ELSE @,
                !.renew_date = Some(q.renew_date),
                !.to_renew   = q.to_renew]]

\* the store executes the first n statements of a batch
RECURSIVE ApplyQueries(_, _, _)
ApplyQueries(table, queries, n) ==
    IF n = 0 \/ queries = <<>> THEN table
    ELSE ApplyQueries(ApplyQuery(table, Head(queries)), Tail(queries), n - 1)

\* a variant that finds nothing to insert when inserts are disabled
InsertProductsWhenEnabled(parsed_products, m) ==
    IF opts.insert_new
    THEN SelectSeq(parsed_products, LAMBDA p : ~ContainsKey(m, p.hub_stock_id))
    ELSE <<>>

\* lines 150-154
InsertProducts(parsed_products, m) ==
    SelectSeq(parsed_products, LAMBDA p : ~ContainsKey(m, p.hub_stock_id))

\* lines 158-160: the row the store creates for a NewProduct; the columns the
\* statement does not name take the table's defaults
NewRow(p, id) ==
    [id |-> id, offer_id |-> p.offer_id, hub_stock_id |-> Some(p.hub_stock_id),
     categoryId |-> p.categoryId, name |-> p.name, price |-> p.price,
     oldprice |-> p.oldprice, currencyId |-> p.currencyId,
     available |-> Some(p.available), description |-> p.description,
     renew_date |-> None, to_renew |-> 0]

InsertRows(table, insert_products) ==
    table \o [i \in 1..Len(insert_products) |->
                 NewRow(insert_products[i], Len(table) + i)]

\* history: the rows that one statement of this run inserted as available or
\* updated from another value to available, whatever a later statement did to
\* them; before and after are the table around that one statement
NoteWrites(h, before, after) ==
    LET on == { i \in 1..Len(after) :
                  /\ after[i].available = Some(AVAILABLE)
                  /\ i <= Len(before) => before[i].available # Some(AVAILABLE) }
    IN  [h EXCEPT !.to_available = @ \cup on]

\* history: the same for the first n statements of a batch, which the store
\* executes in order, each on the table the one before it left
RECURSIVE NoteQueries(_, _, _, _)
NoteQueries(h, table, queries, n) ==
    IF n = 0 \/ queries = <<>> THEN h
    ELSE LET after == ApplyQuery(table, Head(queries))
         IN  NoteQueries(NoteWrites(h, table, after), after, Tail(queries), n - 1)

\* a variant that executes the queued statements one by one
UpdateOpsPerQuery(queries) == [i \in 1..Len(queries) |-> "update"]

\* line 147: the queued statements go to the store in one batch_execute
UpdateOps(queries) == <<"update">>

NewSync == [ret |-> "none", found |-> {}, raw_update_queries |-> <<>>,
            stat |-> [updated_price |-> 0, updated_available |-> 0, inserted |-> 0]]

\* lines 68-145: the bulk lookup and the diff of the chunk against the rows found
SyncLookup ==
    /\ pc = "sync_lookup"
    /\ \E ok \in BOOLEAN :
          IF ~ok
          THEN /\ pc' = "fatal"
               /\ sync' = sync
               /\ hist' = [hist EXCEPT !.batches = Append(@, Len(products_bucket)),
                                       !.chunk_ops = <<"lookup">>,
                                       !.failed = "lookup"]
          ELSE \E m \in FoundMaps(products, products_bucket) :
                  LET acc == DiffLoop(products_bucket, products, m,
                                      [NewSync EXCEPT !.ret = sync.ret, !.found = m])
                  IN  /\ pc' = "sync_update"
                      /\ sync' = acc
                      /\ hist' = [hist EXCEPT !.batches = Append(@, Len(products_bucket)),
                                              !.chunk_ops = <<"lookup">>]
    /\ UNCHANGED <<opts, date_modified, offer, offer_field, stat, products_bucket, all_offer_ids,
                   products, sweep, feed>>

\* lines 146-148: the batched update; a failing batch leaves the statements
\* before the failing one applied
SyncUpdate ==
    /\ pc = "sync_update"
    /\ IF sync.raw_update_queries = <<>>
       THEN /\ pc' = "sync_insert"
            /\ UNCHANGED <<products, hist>>
       ELSE \E ok \in BOOLEAN :
               \E n \in IF ok THEN {Len(sync.raw_update_queries)}
                              ELSE 0..(Len(sync.raw_update_queries) - 1) :
                  /\ products' = ApplyQueries(products, sync.raw_update_queries, n)
                  /\ pc' = IF ok THEN "sync_insert" ELSE "fatal"
                  /\ hist' = NoteQueries([hist EXCEPT !.chunk_ops =
                                              @ \o UpdateOps(sync.raw_update_queries),
                                              !.failed = IF ok THEN @ ELSE "update"],
                                         products, sync.raw_update_queries, n)
    /\ UNCHANGED <<opts, date_modified, offer, offer_field, stat, products_bucket, all_offer_ids,
                   sync, sweep, feed>>

\* a variant that reports new products only when they were inserted
AfterSyncInsertedOnly(st, processed) ==
    [st EXCEPT !.updated_price = @ + processed.updated_price,
               !.updated_available = @ + processed.updated_available,
               !.inserted_products = @ + (IF opts.insert_new THEN processed.inserted ELSE 0)]

\* parser.rs lines 246-251 and 280-292: back in parse_offers with Ok(stat)
AfterSync(st, processed) ==
    [st EXCEPT !.updated_price = @ + processed.updated_price,
               !.updated_available = @ + processed.updated_available,
               !.inserted_products = @ + processed.inserted]

\* lines 150-166: the batched insert, then the return to parse_offers
SyncInsert ==
    /\ pc = "sync_insert"
    /\ LET insert_products == InsertProducts(products_bucket, sync.found)
           processed == [sync.stat EXCEPT !.inserted = @ + Len(insert_products)]
           return ==
               /\ stat' = AfterSync(stat, processed)
               /\ sync' = [sync EXCEPT !.stat = processed]
               /\ IF sync.ret = "loop"
                  THEN /\ products_bucket' = <<>>
                       /\ pc' = "outer"
                  ELSE /\ products_bucket' = products_bucket
                       /\ pc' = IF opts.mark_missing_unavailable
                                THEN "sweep_scan" ELSE "done"
       IN  IF insert_products # <<>> /\ opts.insert_new
           THEN \E ok \in BOOLEAN :
                   /\ IF ok
                      THEN /\ products' = InsertRows(products, insert_products)
                           /\ return
                      ELSE /\ pc' = "fatal"
                           /\ UNCHANGED <<products, stat, sync, products_bucket>>
                   /\ hist' = NoteWrites([hist EXCEPT !.chunk_ops = Append(@, "insert"),
                                                       !.failed = IF ok THEN @ ELSE "insert"],
                                          products, products')
           ELSE /\ return
                /\ UNCHANGED <<products, hist>>
    /\ UNCHANGED <<opts, date_modified, offer, offer_field, all_offer_ids, sweep, feed>>

---------------------------------------------------------------------------
(* process.rs: mark_missing_as_unavailable *)

\* lines 218-223: the ids of the next page, ascending
RECURSIVE PageFrom(_, _, _, _)
PageFrom(table, i, last_product_id, limit) ==
    IF i > Len(table) \/ limit = 0 THEN <<>>
    ELSE IF table[i].id > last_product_id /\ table[i].available = Some(AVAILABLE)
    THEN <<i>> \o PageFrom(table, i + 1, last_product_id, limit - 1)
    ELSE PageFrom(table, i + 1, last_product_id, limit)

Page(table, last_product_id) == PageFrom(table, 1, last_product_id, CHUNK_SIZE)

\* a variant that takes every offer id of the page for missing
MissingOfferIdsWholePage(table, db_offers, ids) ==
    [j \in 1..Len(SelectSeq(db_offers, LAMBDA i : IsSome(table[i].hub_stock_id))) |->
        Unwrap(table[SelectSeq(db_offers,
                               LAMBDA i : IsSome(table[i].hub_stock_id))[j]].hub_stock_id)]

\* lines 232-238: the page's offer ids that the feed did not carry
RECURSIVE MissingOfferIds(_, _, _)
MissingOfferIds(table, db_offers, ids) ==
    IF db_offers = <<>> THEN <<>>
    ELSE LET db_offer_id == table[Head(db_offers)].hub_stock_id
             rest == MissingOfferIds(table, Tail(db_offers), ids)
         IN  IF IsSome(db_offer_id) /\ Unwrap(db_offer_id) \notin ids
             THEN <<Unwrap(db_offer_id)>> \o rest
             ELSE rest

\* a variant that deletes the missing records
MarkUnavailableDeletes(table, missing_offer_ids) ==
    SelectSeq(table, LAMBDA row :
        ~ /\ IsSome(row.hub_stock_id)
          /\ \E j \in 1..Len(missing_offer_ids) :
                missing_offer_ids[j] = Unwrap(row.hub_stock_id))

\* lines 240-242: UPDATE products SET available = 0 WHERE hub_stock_id IN (...)
MarkUnavailable(table, missing_offer_ids) ==
    [i \in 1..Len(table) |->
        IF /\ IsSome(table[i].hub_stock_id)
           /\ \E j \in 1..Len(missing_offer_ids) :
                 missing_offer_ids[j] = Unwrap(table[i].hub_stock_id)
        THEN [table[i] EXCEPT !.available = Some(NOT_AVAILABLE)]
        ELSE table[i]]

NewSweep == [last_product_id |-> 0, missing_offer_ids |-> <<>>, marked_count |-> 0]

\* a variant that takes a page shorter than the limit for the end of the catalog
SweepScanStopsAtShortPage ==
    /\ pc = "sweep_scan"
    /\ \E ok \in BOOLEAN :
          IF ~ok
          THEN /\ pc' = "fatal"
               /\ UNCHANGED <<sweep, stat>>
               /\ hist' = [hist EXCEPT !.sweep0 = IF @ = None THEN Some(products) ELSE @,
                                       !.failed = "scan"]
          ELSE LET db_offers == Page(products, sweep.last_product_id) IN
               /\ hist' = [hist EXCEPT !.sweep0 = IF @ = None THEN Some(products) ELSE @,
                                       !.pages = Append(@, db_offers)]
               /\ IF Len(db_offers) < CHUNK_SIZE
                  THEN /\ pc' = "done"
                       /\ stat' = [stat EXCEPT !.marked_as_unavailable = sweep.marked_count]
                       /\ sweep' = sweep
                  ELSE /\ pc' = "sweep_update"
                       /\ stat' = stat
                       /\ sweep' = [sweep EXCEPT
                             !.last_product_id = products[db_offers[Len(db_offers)]].id,
                             !.missing_offer_ids =
                                 @ \o MissingOfferIds(products, db_offers, all_offer_ids)]
    /\ UNCHANGED <<opts, date_modified, offer, offer_field, products_bucket, all_offer_ids,
                   products, sync, feed>>

\* lines 217-238: one page is read; an empty page ends the sweep and the run
SweepScan ==
    /\ pc = "sweep_scan"
    /\ \E ok \in BOOLEAN :
          IF ~ok
          THEN /\ pc' = "fatal"
               /\ UNCHANGED <<sweep, stat>>
               /\ hist' = [hist EXCEPT !.sweep0 = IF @ = None THEN Some(products) ELSE @,
                                       !.failed = "scan"]
          ELSE LET db_offers == Page(products, sweep.last_product_id) IN
               /\ hist' = [hist EXCEPT !.sweep0 = IF @ = None THEN Some(products) ELSE @,
                                       !.pages = Append(@, db_offers)]
               /\ IF db_offers = <<>>
                  THEN /\ pc' = "done"
                       /\ stat' = [stat EXCEPT !.marked_as_unavailable = sweep.marked_count]
                       /\ sweep' = sweep
                  ELSE /\ pc' = "sweep_update"
                       /\ stat' = stat
                       /\ sweep' = [sweep EXCEPT
                             !.last_product_id = products[db_offers[Len(db_offers)]].id,
                             !.missing_offer_ids =
                                 @ \o MissingOfferIds(products, db_offers, all_offer_ids)]
    /\ UNCHANGED <<opts, date_modified, offer, offer_field, products_bucket, all_offer_ids,
                   products, sync, feed>>

\* a variant that goes on to the next page when the UPDATE has failed
SweepUpdateCarriesOn ==
    /\ pc = "sweep_update"
    /\ pc' = "sweep_scan"
    /\ IF sweep.missing_offer_ids = <<>>
       THEN UNCHANGED <<products, sweep, hist>>
       ELSE \E ok \in BOOLEAN :
               IF ok
               THEN /\ products' = MarkUnavailable(products, sweep.missing_offer_ids)
                    /\ sweep' = [sweep EXCEPT
                                   !.marked_count = @ + Len(sweep.missing_offer_ids),
                                   !.missing_offer_ids = <<>>]
                    /\ hist' = hist
               ELSE /\ hist' = [hist EXCEPT !.failed = "mark"]
                    /\ UNCHANGED <<products, sweep>>
    /\ UNCHANGED <<opts, date_modified, offer, offer_field, stat, products_bucket, all_offer_ids,
                   sync, feed>>

\* lines 239-245: the page's missing records are set to not-available
SweepUpdate ==
    /\ pc = "sweep_update"
    /\ IF sweep.missing_offer_ids = <<>>
       THEN /\ pc' = "sweep_scan"
            /\ UNCHANGED <<products, sweep, hist>>
       ELSE \E ok \in BOOLEAN :
               IF ok
               THEN /\ products' = MarkUnavailable(products, sweep.missing_offer_ids)
                    /\ sweep' = [sweep EXCEPT
                                   !.marked_count = @ + Len(sweep.missing_offer_ids),
                                   !.missing_offer_ids = <<>>]
                    /\ pc' = "sweep_scan"
                    /\ hist' = hist
               ELSE /\ pc' = "fatal"
                    /\ hist' = [hist EXCEPT !.failed = "mark"]
                    /\ UNCHANGED <<products, sweep>>
    /\ UNCHANGED <<opts, date_modified, offer, offer_field, stat, products_bucket, all_offer_ids,
                   sync, feed>>

---------------------------------------------------------------------------
(* Whole offer elements, for the run-level specifications *)

Child(tag, text) == <<StartEv(tag, <<>>), TextEv(text), EndEv(tag)>>

\* <offer id=.. available=..> price, categoryId and name children </offer>
ValidElement(id, lit, price) ==
    [start |-> StartEv("offer", <<Attr("id", id), Attr("available", lit)>>),
     body  |-> Child("price", price) \o Child("categoryId", "7") \o Child("name", "x")
               \o <<EndEv("offer")>>]

\* an offer without a name child: the validator rejects it
NamelessElement(id) ==
    [start |-> StartEv("offer", <<Attr("id", id), Attr("available", "true")>>),
     body  |-> Child("price", "7") \o Child("categoryId", "7") \o <<EndEv("offer")>>]

\* an offer element without an id attribute
AnonymousElement ==
    [start |-> StartEv("offer", <<Attr("available", "true")>>),
     body  |-> Child("price", "7") \o <<EndEv("offer")>>]

\* an offer element with an unknown availability literal
BadLiteralElement ==
    [start |-> StartEv("offer", <<Attr("id", "A"), Attr("available", "yes")>>),
     body  |-> <<EndEv("offer")>>]

\* an offer element with an id and an attribute that cannot be read
MalformedElement ==
    [start |-> StartEv("offer", <<Attr("id", "A"), Attr("available", "true"), ErrAttr>>),
     body  |-> Child("price", "7") \o Child("categoryId", "7") \o Child("name", "x")
               \o <<EndEv("offer")>>]

\* <offer id=.. />
SelfClosingElement(id) ==
    [start |-> EmptyEv("offer", <<Attr("id", id), Attr("available", "true")>>),
     body  |-> <<>>]

Elements ==
    {ValidElement("A", "true", "7"), ValidElement("A", "false", "10"),
     ValidElement("B", "1", "7"),
     NamelessElement("A"), AnonymousElement, BadLiteralElement, MalformedElement,
     SelfClosingElement("B")}

EndOfFeed == [start |-> EofEv, body |-> <<>>]
BrokenFeed == [start |-> ErrEv, body |-> <<>>]

\* the events of an element go through the loop that is reading at the time
RECURSIVE RunEvents(_, _)
RunEvents(f, events) ==
    IF events = <<>> THEN f
    ELSE IF f.pc = "outer"
    THEN RunEvents(OnOuterEvent(f, Head(events)), Tail(events))
    ELSE IF f.pc = "inner"
    THEN RunEvents(OnInnerEvent(f, Head(events)), Tail(events))
    ELSE f

\* history: the id attributes of the offer elements read from the feed
ElementIds(el) ==
    IF IsOfferElement(el.start) /\ HasId(el.start.attrs)
    THEN {ParseAttrs(SelectSeq(el.start.attrs, LAMBDA a : a.key = "id"),
                     None, NOT_AVAILABLE).offer_id[1]}
    ELSE {}

ReadElementFrom(el) ==
    LET f == RunEvents(Frame, <<el.start>> \o el.body)
    IN  Install([f EXCEPT !.hist.feed_ids = @ \cup ElementIds(el),
                          !.hist.read = IF f.hist.record THEN Append(@, el) ELSE @])

\* the next offer element of the feed, or its end
ReadElement ==
    /\ pc \in {"outer", "inner"}
    /\ hist.run = 1
    /\ \E el \in Elements \cup {EndOfFeed, BrokenFeed} :
          /\ IsOfferElement(el.start) => hist.elems < MaxOffers
          /\ ReadElementFrom(el)
    /\ UNCHANGED <<opts, date_modified, products, sweep, feed>>

---------------------------------------------------------------------------
(* Initial states *)

NewStat == [total_offers |-> 0, ignored_offers |-> 0, parsed_offers |-> 0,
            updated_price |-> 0, updated_available |-> 0, inserted_products |-> 0,
            marked_as_unavailable |-> 0]

NewHist(table) ==
    [elems |-> 0, id_elems |-> 0, lit |-> None, batches |-> <<>>, chunk_ops |-> <<>>,
     sweep0 |-> None, pages |-> <<>>, products0 |-> table, feed_ids |-> {},
     read |-> <<>>, record |-> FALSE, run |-> 1, bad_lit |-> FALSE, accepted |-> <<>>,
     to_available |-> {}, stat1 |-> NewStat, failed |-> "none",
     watch |-> FALSE, ev |-> None, closed |-> FALSE]

AllOpts ==
    [update_price : BOOLEAN, update_available : BOOLEAN, insert_new : BOOLEAN,
     mark_missing_unavailable : BOOLEAN]

\* a stored product; the fields the run never looks at are fixed
Row(hub, available, price, oldprice, currency) ==
    [id |-> 0, offer_id |-> "", hub_stock_id |-> hub, categoryId |-> 7, name |-> "x",
     price |-> price, oldprice |-> oldprice, currencyId |-> currency,
     available |-> available, description |-> None, renew_date |-> None,
     to_renew |-> 0]

\* the store numbers the rows in the order of their creation
Numbered(rows) == [i \in 1..Len(rows) |-> [rows[i] EXCEPT !.id = i]]

RowKinds ==
    << Row(Some("A"), Some(AVAILABLE), 7, None, None),
       Row(Some("A"), Some(NOT_AVAILABLE), 10, None, None),
       Row(Some("A"), None, 7, Some(7), None),
       Row(Some("B"), Some(AVAILABLE), 7, None, Some("USD")),
       Row(Some("C"), Some(AVAILABLE), 7, None, None),
       Row(Some("D"), Some(NOT_AVAILABLE), 7, None, None),
       Row(None, Some(AVAILABLE), 7, None, None) >>

UniqueIds(rows) ==
    \A i, j \in 1..Len(rows) :
        (i # j /\ IsSome(rows[i].hub_stock_id)) => rows[i].hub_stock_id # rows[j].hub_stock_id

RECURSIVE Picks(_, _)
Picks(k, from) ==
    IF k = 0 THEN {<<>>}
    ELSE UNION { { <<RowKinds[i]>> \o rest : rest \in Picks(k - 1, i + 1) } :
                 i \in from..Len(RowKinds) }

\* the catalogs a run may start from: external ids are unique
Catalogs ==
    { Numbered(rows) : rows \in { r \in UNION { Picks(k, 1) : k \in 0..MaxRows } :
                                     UniqueIds(r) } }

InitWith(o, table, record) ==
    /\ opts = o
    /\ pc = "outer"
    /\ offer = None
    /\ offer_field = "None"
    /\ stat = NewStat
    /\ products_bucket = <<>>
    /\ all_offer_ids = {}
    /\ products = table
    /\ sync = NewSync
    /\ sweep = NewSweep
    /\ feed = <<>>
    /\ date_modified = 1
    /\ hist = [NewHist(table) EXCEPT !.record = record]

Init == \E o \in AllOpts, table \in Catalogs : InitWith(o, table, FALSE)

Next ==
    \/ ReadElement
    \/ SyncLookup
    \/ SyncUpdate
    \/ SyncInsert
    \/ SweepScan
    \/ SweepUpdate

Spec == Init /\ [][Next]_vars

\* the runs that end with the sweep and write what they find changed
InitSweeping ==
    \E o \in AllOpts, table \in Catalogs :
        /\ o.mark_missing_unavailable /\ o.update_price /\ o.update_available
        /\ InitWith(o, table, FALSE)

\* the program is sequential: once in the loop of the sweep, it takes the next
\* step of the loop
SpecFair ==
    InitSweeping /\ [][Next]_vars /\ WF_vars(SweepScan) /\ WF_vars(SweepUpdate)

\* the event-level parser: one catalog, the write flags off
ParserOpts ==
    { o \in AllOpts : ~o.update_price /\ ~o.update_available /\ ~o.insert_new }

InitParser ==
    \E o \in ParserOpts :
        InitWith(o, Numbered(<<Row(Some("C"), Some(AVAILABLE), 7, None, None)>>), FALSE)

NextParser ==
    \/ ReadOuterEvent
    \/ ReadInnerEvent
    \/ SyncLookup
    \/ SyncUpdate
    \/ SyncInsert
    \/ SweepScan
    \/ SweepUpdate

SpecParser == InitParser /\ [][NextParser]_vars

\* the runs that write what they find changed: both update flags are on
InitUpdating ==
    \E o \in AllOpts, table \in Catalogs :
        /\ o.update_price /\ o.update_available
        /\ InitWith(o, table, FALSE)

SpecUpdating == InitUpdating /\ [][Next]_vars

\* the same program, with the events read inside the offers noted in the history
InitOffer ==
    \E o \in ParserOpts :
        /\ opts = o
        /\ pc = "outer"
        /\ offer = None
        /\ offer_field = "None"
        /\ stat = NewStat
        /\ products_bucket = <<>>
        /\ all_offer_ids = {}
        /\ products = Numbered(<<Row(Some("C"), Some(AVAILABLE), 7, None, None)>>)
        /\ sync = NewSync
        /\ sweep = NewSweep
        /\ feed = <<>>
        /\ date_modified = 1
        /\ hist = [NewHist(products) EXCEPT !.watch = TRUE]

SpecOffer == InitOffer /\ [][NextParser]_vars

---------------------------------------------------------------------------
(* The program is run a second time over the same file *)

\* all write flags are on; the feed of the first run is noted as it is read
InitTwice ==
    \E o \in AllOpts, table \in Catalogs :
        /\ o.update_price /\ o.update_available /\ o.insert_new
        /\ InitWith(o, table, TRUE)

\* main returns Ok and the program is started again: a new frame, the same
\* file, the catalog as the first run left it
Rerun ==
    /\ pc = "done"
    /\ hist.run = 1
    /\ hist.record
    /\ pc' = "outer"
    /\ offer' = None
    /\ offer_field' = "None"
    /\ stat' = NewStat
    /\ products_bucket' = <<>>
    /\ all_offer_ids' = {}
    /\ sync' = NewSync
    /\ sweep' = NewSweep
    /\ feed' = hist.read
    /\ hist' = [NewHist(products) EXCEPT !.run = 2, !.record = TRUE, !.read = hist.read,
                                         !.stat1 = stat, !.accepted = hist.accepted]
    /\ date_modified' = date_modified + 1
    /\ UNCHANGED <<opts, products>>

\* the second run reads the elements the first run read
ReplayElement ==
    /\ pc \in {"outer", "inner"}
    /\ hist.run = 2
    /\ feed # <<>>
    /\ Install([RunEvents(Frame, <<Head(feed).start>> \o Head(feed).body)
                   EXCEPT !.hist.accepted = hist.accepted])
    /\ feed' = Tail(feed)
    /\ UNCHANGED <<opts, date_modified, products, sweep>>

NextTwice ==
    \/ ReadElement
    \/ Rerun
    \/ ReplayElement
    \/ SyncLookup
    \/ SyncUpdate
    \/ SyncInsert
    \/ SweepScan
    \/ SweepUpdate

SpecTwice == InitTwice /\ [][NextTwice]_vars

---------------------------------------------------------------------------
(* A dry run, then the same file over the same catalog with the write flags on *)

\* update_price, update_available and insert_new are off in the first run
InitDryRun ==
    \E o \in AllOpts, table \in Catalogs :
        /\ ~o.update_price /\ ~o.update_available /\ ~o.insert_new
        /\ InitWith(o, table, TRUE)

\* main returns Ok; the catalog is put back as it was before the dry run and the
\* program is started on the same file with the three write flags given
RerunWithWrites ==
    /\ pc = "done"
    /\ hist.run = 1
    /\ hist.record
    /\ ~opts.update_price /\ ~opts.update_available /\ ~opts.insert_new
    /\ opts' = [opts EXCEPT !.update_price = TRUE, !.update_available = TRUE,
                            !.insert_new = TRUE]
    /\ products' = hist.products0
    /\ pc' = "outer"
    /\ offer' = None
    /\ offer_field' = "None"
    /\ stat' = NewStat
    /\ products_bucket' = <<>>
    /\ all_offer_ids' = {}
    /\ sync' = NewSync
    /\ sweep' = NewSweep
    /\ feed' = hist.read
    /\ hist' = [NewHist(hist.products0) EXCEPT
                   !.run = 2, !.record = TRUE, !.read = hist.read,
                   !.stat1 = stat, !.accepted = hist.accepted]
    /\ date_modified' = date_modified + 1

NextDryRun ==
    \/ ReadElement
    \/ RerunWithWrites
    \/ ReplayElement
    \/ SyncLookup
    \/ SyncUpdate
    \/ SyncInsert
    \/ SweepScan
    \/ SweepUpdate

SpecDryRun == InitDryRun /\ [][NextDryRun]_vars

---------------------------------------------------------------------------
(* A run, then a run over the next file of the supplier *)

\* the write flags and the sweep are on in both runs
InitNextFile ==
    \E o \in AllOpts, table \in Catalogs :
        /\ o.update_price /\ o.update_available /\ o.insert_new
        /\ o.mark_missing_unavailable
        /\ InitWith(o, table, TRUE)

\* main returns Ok and the program is started again on the catalog as the first
\* run left it; the next file holds the offers of the first one from some offer
\* on (all of them, the last ones, or none)
RerunNextFile ==
    /\ pc = "done"
    /\ hist.run = 1
    /\ hist.record
    /\ \E k \in 1..Len(hist.read) : feed' = SubSeq(hist.read, k, Len(hist.read))
    /\ pc' = "outer"
    /\ offer' = None
    /\ offer_field' = "None"
    /\ stat' = NewStat
    /\ products_bucket' = <<>>
    /\ all_offer_ids' = {}
    /\ sync' = NewSync
    /\ sweep' = NewSweep
    /\ hist' = [NewHist(products) EXCEPT !.run = 2, !.record = TRUE, !.read = hist.read,
                                         !.stat1 = stat, !.accepted = hist.accepted]
    /\ date_modified' = date_modified + 1
    /\ UNCHANGED <<opts, products>>

NextNextFile ==
    \/ ReadElement
    \/ RerunNextFile
    \/ ReplayElement
    \/ SyncLookup
    \/ SyncUpdate
    \/ SyncInsert
    \/ SweepScan
    \/ SweepUpdate

SpecNextFile == InitNextFile /\ [][NextNextFile]_vars

---------------------------------------------------------------------------
(* Claims *)

\* C1: an offer that reaches the validator is rejected exactly when its name,
\* category id or price is absent; a rejected offer adds 1 to ignored_offers and
\* leaves parsed_offers and the bucket alone; an accepted offer adds 1 to
\* parsed_offers, leaves ignored_offers alone and puts into the bucket a candidate
\* with the offer's external id, availability, price, old price, currency and
\* description.
C1_ValidatorGate ==
    [][ (pc = "inner" /\ stat'.total_offers = stat.total_offers + 1) =>
          LET o == Unwrap(offer) IN
          IF o.name = None \/ o.category_id = None \/ o.price = None
          THEN /\ stat'.ignored_offers = stat.ignored_offers + 1
               /\ stat'.parsed_offers = stat.parsed_offers
               /\ products_bucket' = products_bucket
          ELSE /\ stat'.parsed_offers = stat.parsed_offers + 1
               /\ stat'.ignored_offers = stat.ignored_offers
               /\ Len(products_bucket') = Len(products_bucket) + 1
               /\ SubSeq(products_bucket', 1, Len(products_bucket)) = products_bucket
               /\ LET c == products_bucket'[Len(products_bucket')] IN
                     /\ c.offer_id = o.offer_id
                     /\ c.hub_stock_id = o.offer_id
                     /\ c.available = o.available
                     /\ Some(c.price) = o.price
                     /\ Some(c.categoryId) = o.category_id
                     /\ Some(c.name) = o.name
                     /\ c.oldprice = o.old_price
                     /\ c.currencyId = o.currency_id
                     /\ c.description = o.description ]_vars

\* an accepted offer with an old price and a currency sits in the bucket
C1_Witness ==
    /\ stat.parsed_offers = 1
    /\ stat.ignored_offers = 0
    /\ Len(products_bucket) = 1
    /\ products_bucket[1].oldprice = Some(7)
    /\ products_bucket[1].currencyId = Some("USD")
    /\ products_bucket[1].available = AVAILABLE

\* C2: while an offer is being filled, the availability literal of its element
\* was "1" or "true" and the offer is available, or it was "0", "false" or ""
\* and the offer is not available, or the element had no such attribute; no
\* other literal produces an offer.
C2_AvailabilityMapping ==
    offer # None =>
        \/ hist.lit = None
        \/ hist.lit \in {Some("1"), Some("true")} /\ Unwrap(offer).available = AVAILABLE
        \/ /\ hist.lit \in {Some("0"), Some("false"), Some("")}
           /\ Unwrap(offer).available = NOT_AVAILABLE

\* an offer whose element said available="" is being filled
C2_Witness ==
    /\ offer # None
    /\ hist.lit = Some("")
    /\ Unwrap(offer).available = NOT_AVAILABLE

\* C3: once an offer element with an availability literal outside
\* {"", "true", "1", "false", "0"} has been read, the run is in the fatal error
\* state (and nothing is processed from there on).
C3_UnknownLiteralIsFatal ==
    hist.bad_lit => pc = "fatal"

\* C4: after the diff of a chunk, updated_available counts exactly the matched
\* candidates whose availability differs from the stored one and updated_price
\* exactly those whose price, old price or currency differs, whatever the flags;
\* an UPDATE sets availability only under update_available and the price group
\* only under update_price.
C4_DiffCountsIgnoreFlags ==
    pc = "sync_update" =>
        LET matched == { i \in 1..Len(products_bucket) :
                            ContainsKey(sync.found, products_bucket[i].hub_stock_id) }
            row(i) == products[Get(sync.found, products_bucket[i].hub_stock_id).id]
        IN  /\ sync.stat.updated_available =
                  Cardinality({ i \in matched :
                                  Some(products_bucket[i].available) # row(i).available })
            /\ sync.stat.updated_price =
                  Cardinality({ i \in matched :
                                  \/ products_bucket[i].price # row(i).price
                                  \/ products_bucket[i].oldprice # row(i).oldprice
                                  \/ products_bucket[i].currencyId # row(i).currencyId })
            /\ \A k \in 1..Len(sync.raw_update_queries) :
                  LET q == sync.raw_update_queries[k] IN
                  /\ IsSome(q.set.available) => opts.update_available
                  /\ (IsSome(q.set.price) \/ IsSome(q.set.oldprice)
                        \/ IsSome(q.set.currencyId)) => opts.update_price

\* with both update flags off, a chunk counts a changed availability and a
\* changed price group and queues no UPDATE
C4_Witness ==
    /\ pc = "sync_update"
    /\ ~opts.update_available
    /\ ~opts.update_price
    /\ sync.stat.updated_available >= 1
    /\ sync.stat.updated_price >= 1
    /\ sync.raw_update_queries = <<>>

\* C5 as stated: the second of two completed runs over the same feed, all write
\* flags on, counts no changed availability, no changed price and no new product.
C5_SecondRunCountsNothing ==
    (pc = "done" /\ hist.run = 2) =>
        /\ stat.updated_available = 0
        /\ stat.updated_price = 0
        /\ stat.inserted_products = 0

NoRepeatedId(ids) == \A i, j \in 1..Len(ids) : i # j => ids[i] # ids[j]

\* C5 as amended: the same, for a feed in which no two accepted offers carry the
\* same external id (the catalog's external ids being unique at the start).
C5_SecondRunCountsNothingUniqueIds ==
    (pc = "done" /\ hist.run = 2 /\ NoRepeatedId(hist.accepted)) =>
        /\ stat.updated_available = 0
        /\ stat.updated_price = 0
        /\ stat.inserted_products = 0

\* the second run is complete after a first run that updated and inserted
C5_Witness ==
    /\ pc = "done"
    /\ hist.run = 2
    /\ NoRepeatedId(hist.accepted)
    /\ Len(hist.accepted) = 2
    /\ hist.stat1.updated_price >= 1
    /\ hist.stat1.updated_available >= 1
    /\ hist.stat1.inserted_products >= 1

\* C6: every batch handed to sync_products_chunk holds between 1 and BUCKET_LEN
\* candidates and every batch but the last issued holds BUCKET_LEN; a completed
\* run over n accepted offers has issued ceil(n / BUCKET_LEN) batches holding n
\* candidates in all.
C6_Chunking ==
    LET b == hist.batches
        n == stat.parsed_offers
    IN  /\ \A i \in 1..Len(b) : 1 <= b[i] /\ b[i] <= BUCKET_LEN
        /\ \A i \in 1..(Len(b) - 1) : b[i] = BUCKET_LEN
        /\ pc = "done" =>
              /\ Len(b) = (n + BUCKET_LEN - 1) \div BUCKET_LEN
              /\ SeqSum(b) = n

\* BUCKET_LEN + 1 accepted offers made two batches, of BUCKET_LEN and of 1
C6_Witness ==
    /\ pc = "done"
    /\ stat.parsed_offers = BUCKET_LEN + 1
    /\ hist.batches = <<BUCKET_LEN, 1>>

Swept == pc = "done" /\ opts.mark_missing_unavailable /\ hist.sweep0 # None

\* C7 as stated: a completed sweep has set to not-available exactly the records
\* that were available when it started and whose external id is not in the
\* observed set, and has left every other record as it was.
C7_SweepMarksExactlyMissing ==
    Swept =>
        LET t0 == Unwrap(hist.sweep0) IN
        /\ Len(products) = Len(t0)
        /\ \A i \in 1..Len(t0) :
              products[i] =
                 IF /\ t0[i].available = Some(AVAILABLE)
                    /\ \A k \in all_offer_ids : t0[i].hub_stock_id # Some(k)
                 THEN [t0[i] EXCEPT !.available = Some(NOT_AVAILABLE)]
                 ELSE t0[i]

\* C7 as amended: ... exactly the records that were available when it started
\* and that have an external id which is not in the observed set; records
\* without an external id are left as they were, like every other record.
C7_SweepMarksExactlyMissingWithId ==
    Swept =>
        LET t0 == Unwrap(hist.sweep0) IN
        /\ Len(products) = Len(t0)
        /\ \A i \in 1..Len(t0) :
              products[i] =
                 IF /\ t0[i].available = Some(AVAILABLE)
                    /\ t0[i].hub_stock_id # None
                    /\ \A k \in all_offer_ids : t0[i].hub_stock_id # Some(k)
                 THEN [t0[i] EXCEPT !.available = Some(NOT_AVAILABLE)]
                 ELSE t0[i]

\* a sweep marked one record, kept an observed one available and left a
\* not-available one and one without external id alone
C7_Witness ==
    /\ Swept
    /\ LET t0 == Unwrap(hist.sweep0) IN
       /\ \E i \in 1..Len(t0) : t0[i].available = Some(AVAILABLE)
                                /\ products[i].available = Some(NOT_AVAILABLE)
       /\ \E i \in 1..Len(t0) : /\ t0[i].hub_stock_id # None
                                /\ Unwrap(t0[i].hub_stock_id) \in all_offer_ids
                                /\ products[i].available = Some(AVAILABLE)
       /\ \E i \in 1..Len(t0) : \/ t0[i].available = Some(NOT_AVAILABLE)
                                \/ t0[i].hub_stock_id = None

Available(table) == { i \in 1..Len(table) : table[i].available = Some(AVAILABLE) }

\* C8 as stated: after a completed run with the sweep, the available records are
\* exactly those that were available before the run, or were inserted as
\* available or updated to available by it, and whose external id is the id of
\* an offer element of the feed.
C8_AvailableAfterRun ==
    Swept =>
        Available(products) =
            (Available(hist.products0) \cup hist.to_available)
            \cap { i \in 1..Len(products) :
                      \E k \in hist.feed_ids : products[i].hub_stock_id = Some(k) }

\* C9 as stated: at the end of a completed run total_offers is parsed_offers plus
\* ignored_offers and is the number of offer elements of the feed that carry an
\* id attribute.
C9_TotalCountsIdentifiedElements ==
    pc = "done" =>
        /\ stat.total_offers = stat.parsed_offers + stat.ignored_offers
        /\ stat.total_offers = hist.id_elems

\* C10: the store operations of a chunk are one lookup, then at most one batched
\* update, then at most one batched insert.
C10_StoreOperationsOfAChunk ==
    /\ hist.chunk_ops \in {<<>>, <<"lookup">>, <<"lookup", "update">>,
                           <<"lookup", "insert">>, <<"lookup", "update", "insert">>}
    /\ pc \in {"sync_update", "sync_insert"} => hist.chunk_ops # <<>>
    /\ pc = "sync_update" => hist.chunk_ops = <<"lookup">>

\* a chunk with two records to update issued one lookup and one update
C10_Witness ==
    /\ pc = "sync_insert"
    /\ Len(sync.raw_update_queries) = 2
    /\ hist.chunk_ops = <<"lookup", "update">>

\* the candidates of the bucket that the lookup did not match
Unmatched ==
    { i \in 1..Len(products_bucket) :
        \A x \in sync.found : x.key # products_bucket[i].hub_stock_id }

\* C11: when the insert step of a chunk returns, the inserted counter has grown
\* by the number of candidates without a matching record whatever the insert
\* flag; the catalog has grown by that number under insert_new and not at all
\* without it; with insert_new off no step of a run adds a record.
C11_InsertCountIgnoresFlag ==
    [][ /\ (pc = "sync_insert" /\ pc' # "fatal") =>
              /\ stat'.inserted_products = stat.inserted_products + Cardinality(Unmatched)
              /\ Len(products') = Len(products) +
                                    (IF opts.insert_new THEN Cardinality(Unmatched) ELSE 0)
              /\ SubSeq(products', 1, Len(products)) = products
        /\ ~opts.insert_new => Len(products') = Len(products) ]_vars

\* a completed run counted two new products with insert_new off: no record added
C11_Witness ==
    /\ pc = "done"
    /\ ~opts.insert_new
    /\ stat.inserted_products = 2
    /\ Len(products) = Len(hist.products0)

\* the matched candidates of the bucket, the record each one matched, and the
\* field groups of it that are both changed and enabled
Matched == (1..Len(products_bucket)) \ Unmatched
RowOf(i) == (CHOOSE x \in sync.found : x.key = products_bucket[i].hub_stock_id).id
AvailabilityDue(i) ==
    /\ opts.update_available
    /\ Some(products_bucket[i].available) # products[RowOf(i)].available
PriceGroupDue(i) ==
    /\ opts.update_price
    /\ \/ products_bucket[i].price # products[RowOf(i)].price
       \/ products_bucket[i].oldprice # products[RowOf(i)].oldprice
       \/ products_bucket[i].currencyId # products[RowOf(i)].currencyId
Due == { i \in Matched : AvailabilityDue(i) \/ PriceGroupDue(i) }
LastOf(S) == CHOOSE i \in S : \A k \in S : k <= i

\* C12: the diff queues one update for each matched candidate with a field group
\* that is both changed and enabled, and none for the others; the executed batch
\* gives each such record the availability of the candidate only where that group
\* is due and price, old price and currency together only where that group is
\* due, sets the renewal timestamp and the needs-renew marker, and leaves every
\* other field and every other record as stored.
C12_UpdateWritesDueGroupsOnly ==
    [][ (pc = "sync_update" /\ pc' = "sync_insert") =>
          /\ Len(sync.raw_update_queries) = Cardinality(Due)
          /\ { q.id : q \in { sync.raw_update_queries[k] :
                                 k \in 1..Len(sync.raw_update_queries) } }
                = { RowOf(i) : i \in Due }
          /\ Len(products') = Len(products)
          /\ \A j \in 1..Len(products) :
                LET upd == { i \in Due : RowOf(i) = j }
                    av  == { i \in upd : AvailabilityDue(i) }
                    pr  == { i \in upd : PriceGroupDue(i) }
                    old == products[j]
                IN  products'[j] =
                      IF upd = {} THEN old
                      ELSE [old EXCEPT
                              !.available = IF av = {} THEN @
                                            ELSE Some(products_bucket[LastOf(av)].available),
                              !.price = IF pr = {} THEN @
                                        ELSE products_bucket[LastOf(pr)].price,
                              !.oldprice = IF pr = {} THEN @
                                           ELSE products_bucket[LastOf(pr)].oldprice,
                              !.currencyId = IF pr = {} THEN @
                                             ELSE products_bucket[LastOf(pr)].currencyId,
                              !.renew_date = Some(date_modified),
                              !.to_renew = 1] ]_vars

\* an update wrote the changed availability of a record and kept its changed
\* price, the price flag being off
C12_Witness ==
    /\ pc = "sync_insert"
    /\ opts.update_available
    /\ ~opts.update_price
    /\ sync.stat.updated_price = 1
    /\ \E j \in 1..Len(products) :
          /\ j <= Len(hist.products0)
          /\ products[j].available # hist.products0[j].available
          /\ products[j].price = hist.products0[j].price
          /\ products[j].price # products_bucket[1].price
          /\ products[j].to_renew = 1
          /\ products[j].renew_date = Some(date_modified)

\* C13: a step in which a store operation fails (lookup, batched update, insert,
\* sweep scan or sweep update) ends in the fatal error state; it removes no
\* record and changes no record other than those the statements of the failing
\* batch address, so the writes of the chunks completed before stay applied; and
\* no step follows a failure: nothing is retried, no store operation is issued.
C13_StoreFailureIsFatal ==
    [][ /\ hist.failed = "none"
        /\ hist'.failed # "none" =>
              /\ pc' = "fatal"
              /\ pc \in {"sync_lookup", "sync_update", "sync_insert",
                         "sweep_scan", "sweep_update"}
              /\ Len(products') = Len(products)
              /\ \A j \in 1..Len(products) :
                    \/ products'[j] = products[j]
                    \/ /\ hist'.failed = "update"
                       /\ \E k \in 1..Len(sync.raw_update_queries) :
                             sync.raw_update_queries[k].id = j
              /\ stat' = stat ]_vars

\* the second chunk of a run failed in its batched update after the first chunk
\* had inserted a record: the record is still there
C13_Witness ==
    /\ pc = "fatal"
    /\ hist.failed = "update"
    /\ Len(hist.batches) = 2
    /\ Len(products) > Len(hist.products0)

SameCounts(a, b) ==
    /\ a.updated_available = b.updated_available
    /\ a.updated_price = b.updated_price
    /\ a.inserted_products = b.inserted_products

\* C14 as stated: a completed run with the write flags off (and no sweep) has left
\* the catalog as it was, and a completed run over the same feed and the same
\* initial catalog with the write flags on reports the counts of the dry run.
C14_DryRunReportsTheSameCounts ==
    /\ (pc = "done" /\ hist.run = 1 /\ ~opts.mark_missing_unavailable) =>
           products = hist.products0
    /\ (pc = "done" /\ hist.run = 2) => SameCounts(stat, hist.stat1)

\* C14 as amended: the same, for a feed in which no two accepted offers carry the
\* same external id (the catalog's external ids being unique at the start).
C14_DryRunReportsTheSameCountsUniqueIds ==
    /\ (pc = "done" /\ hist.run = 1 /\ ~opts.mark_missing_unavailable) =>
           products = hist.products0
    /\ (pc = "done" /\ hist.run = 2 /\ NoRepeatedId(hist.accepted)) =>
           SameCounts(stat, hist.stat1)

\* the run with the write flags on is complete: it updated and inserted, and the
\* dry run before it had counted as much
C14_Witness ==
    /\ pc = "done"
    /\ hist.run = 2
    /\ NoRepeatedId(hist.accepted)
    /\ stat.updated_available >= 1
    /\ stat.updated_price >= 1
    /\ stat.inserted_products >= 1
    /\ products # hist.products0

\* C15 as stated: the inner loop is left either at the closing tag of the offer
\* or, when the input ends or cannot be read inside the offer, by the fatal
\* error return; the run has no other outcome there.
C15_EofInsideOfferIsFatalError ==
    [][ (pc = "inner" /\ pc' \notin {"inner", "outer", "sync_lookup"}) =>
            pc' = "fatal" ]_vars

\* C16 as stated: reading an offer element that has no id attribute changes no
\* counter, adds no candidate and no observed id, gives none of its children's
\* text to an offer, and leaves the parser where it was, ready for the next offer.
C16_OfferWithoutIdIsSkipped ==
    [][ (hist'.elems = hist.elems + 1 /\ hist'.id_elems = hist.id_elems) =>
            /\ stat' = stat
            /\ products_bucket' = products_bucket
            /\ all_offer_ids' = all_offer_ids
            /\ offer' = offer
            /\ pc' = pc ]_vars

\* C17 as stated: at every point of a run that started from a catalog with unique
\* external ids, no two records share an external id.
C17_ExternalIdsStayUnique ==
    UniqueIds(products)

\* C18 as stated: when the sweep runs, the set it was handed holds the id of
\* every offer element with an id that was read from the feed, and the sweep has
\* set no record to not-available whose external id appears in the feed.
C18_ObservedSetIsComplete ==
    (opts.mark_missing_unavailable /\ pc \in {"sweep_scan", "sweep_update", "done"}) =>
        /\ hist.feed_ids \subseteq all_offer_ids
        /\ hist.sweep0 # None =>
              \A i \in 1..Len(Unwrap(hist.sweep0)) :
                 (/\ Unwrap(hist.sweep0)[i].available = Some(AVAILABLE)
                  /\ \E k \in hist.feed_ids : products[i].hub_stock_id = Some(k))
                 => products[i].available = Some(AVAILABLE)

InSweep == pc \in {"sweep_scan", "sweep_update"}

\* C19: the sweep is entered only with mark_missing_unavailable set, only once in
\* a run, and only from the end of the feed: either the outer loop read the end
\* of the file with an empty bucket, or the chunk issued after the end of the
\* file has returned; by then every accepted offer has been in a batch.  While
\* the sweep runs no batch is issued and the run can only go on sweeping, end or
\* fail; after a fatal error or a panic nothing runs, in particular no sweep.
C19_SweepOnceAfterTheFeed ==
    [][ /\ (pc' = "sweep_scan" /\ ~InSweep) =>
              /\ opts.mark_missing_unavailable
              /\ hist.sweep0 = None /\ hist.pages = <<>>
              /\ \/ pc = "outer" /\ products_bucket = <<>>
                 \/ pc = "sync_insert" /\ sync.ret = "final"
              /\ SeqSum(hist'.batches) = stat'.parsed_offers
        /\ InSweep =>
              /\ opts.mark_missing_unavailable
              /\ pc' \in {"sweep_scan", "sweep_update", "done", "fatal"}
              /\ hist'.batches = hist.batches
        /\ pc \notin {"fatal", "panic", "done"} ]_vars

\* a run reconciled a full chunk and a last partial one, then swept two pages
C19_Witness ==
    /\ pc = "done"
    /\ hist.batches = <<BUCKET_LEN, 1>>
    /\ hist.sweep0 # None
    /\ Len(hist.pages) >= 2
    /\ stat.marked_as_unavailable >= 1

\* the positions <<page, place>> at which the pages of the sweep returned record i
ScansOf(i) ==
    { pos \in (1..Len(hist.pages)) \X (1..CHUNK_SIZE) :
        /\ pos[2] <= Len(hist.pages[pos[1]])
        /\ hist.pages[pos[1]][pos[2]] = i }

\* C20 as stated: the ids of the pages of a sweep ascend within a page and from
\* page to page, and when the sweep is complete every record that was available
\* at its start has been returned by exactly one page, exactly once.
C20_EveryAvailableRecordScannedOnce ==
    hist.sweep0 # None =>
        /\ \A p, q \in 1..Len(hist.pages) :
              \A k \in 1..Len(hist.pages[p]), l \in 1..Len(hist.pages[q]) :
                 (p < q \/ (p = q /\ k < l)) => hist.pages[p][k] < hist.pages[q][l]
        /\ pc = "done" =>
              \A i \in Available(Unwrap(hist.sweep0)) : Cardinality(ScansOf(i)) = 1

\* C21: a sweep that has started comes to an end (the run is done, or a store
\* operation has failed), and the sweep ends the run exactly in the step in
\* which a page read returns no records.
C21_SweepTerminatesAtEmptyPage ==
    /\ (pc = "sweep_scan") ~> (pc \in {"done", "fatal"})
    /\ [][ (InSweep /\ pc' = "done")
             <=> (/\ pc = "sweep_scan"
                  /\ Len(hist'.pages) = Len(hist.pages) + 1
                  /\ hist'.pages[Len(hist'.pages)] = <<>>) ]_vars

\* a sweep ended at its third page read, after two pages with records
C21_Witness ==
    /\ pc = "done"
    /\ Len(hist.pages) = 3
    /\ hist.pages[1] # <<>> /\ hist.pages[2] # <<>> /\ hist.pages[3] = <<>>

\* the records a complete sweep has turned from available to not-available
TurnedOff ==
    { i \in 1..Len(Unwrap(hist.sweep0)) :
        /\ Unwrap(hist.sweep0)[i].available = Some(AVAILABLE)
        /\ products[i].available = Some(NOT_AVAILABLE) }

\* C22 as stated: the count a complete sweep returns is the number of records
\* whose availability it changed from available to not-available.
C22_MarkedCountIsRecordsTurnedOff ==
    (pc = "done" /\ hist.sweep0 # None) =>
        stat.marked_as_unavailable = Cardinality(TurnedOff)

\* C23 as stated: every step of a run that changes a field of a record that
\* existed before the step leaves the needs-renew marker of that record set.
C23_EveryChangeSetsNeedsRenew ==
    [][ \A j \in 1..Len(products) :
           (j <= Len(products') /\ products'[j] # products[j]) =>
               products'[j].to_renew = 1 ]_vars

\* the external ids of the candidates of a batch, in the order of the batch
IdsOf(bucket) == [i \in 1..Len(bucket) |-> bucket[i].offer_id]

\* the statements queued for a batch follow the order of its candidates
QueuedInFeedOrder(queries, bucket, table) ==
    \E g \in [1..Len(queries) -> 1..Len(bucket)] :
        /\ \A i, j \in 1..Len(queries) : i < j => g[i] < g[j]
        /\ \A i \in 1..Len(queries) :
              /\ table[queries[i].id].hub_stock_id = Some(bucket[g[i]].hub_stock_id)
              /\ queries[i] = UpdateQuery(bucket[g[i]], table[queries[i].id])

\* C24: the batches cut the sequence of accepted candidates into consecutive
\* pieces: the batch handed to the reconciliation is the next piece, in feed
\* order, after the pieces already handed over; the updates queued for a batch
\* follow the order of its candidates; and when the run completes without error
\* every accepted candidate was in one batch.
C24_BatchesKeepFeedOrder ==
    /\ pc = "sync_lookup" =>
          /\ products_bucket # <<>>
          /\ IdsOf(products_bucket) =
                SubSeq(hist.accepted, SeqSum(hist.batches) + 1, Len(hist.accepted))
    /\ pc \in {"sync_update", "sync_insert"} =>
          /\ SeqSum(hist.batches) = Len(hist.accepted)
          /\ IdsOf(products_bucket) =
                SubSeq(hist.accepted, Len(hist.accepted) - Len(products_bucket) + 1,
                       Len(hist.accepted))
          /\ hist.batches[Len(hist.batches)] = Len(products_bucket)
    /\ pc = "sync_update" =>
          QueuedInFeedOrder(sync.raw_update_queries, products_bucket, products)
    /\ pc = "done" => SeqSum(hist.batches) = Len(hist.accepted)

\* a second batch is being reconciled after a first batch of two different
\* candidates whose two updates went to two different records
C24_Witness ==
    /\ pc = "sync_update"
    /\ Len(hist.batches) = 2
    /\ hist.accepted[1] # hist.accepted[2]
    /\ sync.raw_update_queries # <<>>
    /\ \E i, j \in 1..Len(products) :
          /\ i # j
          /\ products[i].renew_date = Some(date_modified)
          /\ products[j].renew_date = Some(date_modified)

\* the fields of a record no write of a run names
Identity(row) ==
    [id |-> row.id, offer_id |-> row.offer_id, hub_stock_id |-> row.hub_stock_id,
     categoryId |-> row.categoryId, name |-> row.name, description |-> row.description]

\* C25: a run never deletes a record, and every record that existed before the
\* run keeps its internal id, external id, category, name and description:
\* only availability, price, old price, currency, renewal timestamp and
\* needs-renew marker differ from the catalog the run started with.
C25_RunKeepsRecordsAndIdentity ==
    /\ Len(products) >= Len(hist.products0)
    /\ \A i \in 1..Len(hist.products0) : Identity(products[i]) = Identity(hist.products0[i])

\* a completed run that updated one record, turned another off in the sweep
\* and added a third
C25_Witness ==
    /\ pc = "done"
    /\ Len(products) > Len(hist.products0)
    /\ \E i, j \in 1..Len(hist.products0) :
          /\ products[i].to_renew = 1 /\ hist.products0[i].to_renew = 0
          /\ products[j].to_renew = 0
          /\ products[j].available # hist.products0[j].available

\* the step reads the event e inside an offer (history of SpecOffer)
ReadInside(e) == pc = "inner" /\ hist'.ev = Some(e)

\* the closing tag of the offer completes it: it is counted in total_offers and
\* handed to the validator, which accepts or ignores it
OfferCompleted ==
    ReadInside(EndEv("offer")) =>
        /\ pc' \notin {"inner", "fatal", "panic"}
        /\ stat'.total_offers = stat.total_offers + 1
        /\ IF IsSome(convert_offer_to_product(Unwrap(offer)))
           THEN /\ stat'.parsed_offers = stat.parsed_offers + 1
                /\ stat'.ignored_offers = stat.ignored_offers
           ELSE /\ stat'.parsed_offers = stat.parsed_offers
                /\ stat'.ignored_offers = stat.ignored_offers + 1

\* C26 as stated: a text that fails to parse as the number of the current field
\* (price, old price, category id) leaves that field absent and the offer open;
\* the closing tag of the offer then completes it.
C26_FailedParseLeavesFieldAbsent ==
    [][ /\ \A t \in Words : ReadInside(TextEv(t)) =>
              /\ (offer_field = "Price" /\ ParseF32(t) = None) =>
                     (pc' = "inner" /\ Unwrap(offer').price = None)
              /\ (offer_field = "OldPrice" /\ ParseF32(t) = None) =>
                     (pc' = "inner" /\ Unwrap(offer').old_price = None)
              /\ (offer_field = "CategoryId" /\ ParseI32(t) = None) =>
                     (pc' = "inner" /\ Unwrap(offer').category_id = None)
        /\ OfferCompleted ]_vars

\* C26, amended: a price or category id text that fails to parse leaves the
\* whole raw offer as it was, the field with the value an earlier child element
\* gave it or absent; an old price text that fails to parse leaves the old price
\* absent and the other fields as they were; the offer stays open, and its
\* closing tag completes it.
C26_FailedParseKeepsPriceAndCategory ==
    [][ /\ \A t \in Words : ReadInside(TextEv(t)) =>
              /\ (offer_field = "Price" /\ ParseF32(t) = None) =>
                     (pc' = "inner" /\ offer' = offer)
              /\ (offer_field = "OldPrice" /\ ParseF32(t) = None) =>
                     (pc' = "inner"
                        /\ offer' = Some([Unwrap(offer) EXCEPT !.old_price = None]))
              /\ (offer_field = "CategoryId" /\ ParseI32(t) = None) =>
                     (pc' = "inner" /\ offer' = offer)
        /\ OfferCompleted ]_vars

\* a second price element whose text is no number was read after a first one
\* had set the price
C26_Witness ==
    /\ pc = "inner"
    /\ hist.ev = Some(TextEv("x"))
    /\ offer_field = "Price"
    /\ Unwrap(offer).price = Some(7)

AllowedOrAbsent(currency) == currency = None \/ (IsSome(currency) /\ Unwrap(currency) \in Currencies)

\* C27: the currency of the raw offer and of every candidate is absent or one
\* of the allow-set, and a currency text outside the set leaves the offer as
\* it was and open: it is not stored and it ends neither the offer nor the run.
C27_CurrencyIsAllowedOrAbsent ==
    /\ [](/\ IsSome(offer) => AllowedOrAbsent(Unwrap(offer).currency_id)
          /\ \A i \in 1..Len(products_bucket) :
                AllowedOrAbsent(products_bucket[i].currencyId))
    /\ [][ \A t \in Words \ Currencies :
              (ReadInside(TextEv(t)) /\ offer_field = "CurrencyId") =>
                  (pc' = "inner" /\ offer' = offer) ]_vars

\* a currency text outside the set was read after an earlier element had set USD
C27_Witness ==
    /\ pc = "inner"
    /\ hist.ev = Some(TextEv("x"))
    /\ offer_field = "CurrencyId"
    /\ Unwrap(offer).currency_id = Some("USD")

\* C28: the offer is ended by the closing tag named offer and by no other
\* event; every other closing tag leaves the offer open and as it was and sets
\* the current field to none; and a text read after a closing tag, with no
\* known opening tag between the two, leaves the offer as it was.
C28_OnlyOfferTagEndsTheOffer ==
    [][ /\ (pc = "inner" /\ pc' \notin {"inner", "fatal", "panic"}) =>
               hist'.ev = Some(EndEv("offer"))
        /\ ReadInside(EndEv("offer")) => pc' # "inner"
        /\ \A e \in InnerEvents :
              (e.type = "End" /\ e.name # "offer" /\ ReadInside(e)) =>
                  (pc' = "inner" /\ offer_field' = "None" /\ offer' = offer)
        /\ \A t \in Words :
              (hist.closed /\ ReadInside(TextEv(t))) => (pc' = "inner" /\ offer' = offer) ]_vars

\* a closing tag was read and then, before any known opening tag, a number:
\* the offer has no field set
C28_Witness ==
    /\ pc = "inner"
    /\ hist.closed
    /\ hist.ev = Some(TextEv("7"))
    /\ Unwrap(offer).price = None
    /\ Unwrap(offer).old_price = None
    /\ Unwrap(offer).category_id = None
    /\ Unwrap(offer).name = None

\* C29 as stated: a text read right after the opening tag of an unknown element
\* is the content of that element, and leaves the offer as it was.
C29_UnknownElementTextIsIgnored ==
    [][ \A t \in Words :
           (hist.ev = Some(StartEv("param", <<>>)) /\ ReadInside(TextEv(t))) =>
               offer' = offer ]_vars

\* C30 as stated, for the name: the content a character-data section delivers
\* inside a name element is in the name afterwards, and a text that follows the
\* section in the same element is added to it, so the name is then more than
\* that last text.
C30_ContentIsAccumulated ==
    [][ /\ (offer_field = "Name" /\ ReadInside(CDataEv("7"))) =>
               IsSome(Unwrap(offer').name)
        /\ \A t \in Words :
              (/\ offer_field = "Name"
               /\ hist.ev = Some(CDataEv("7"))
               /\ ReadInside(TextEv(t))) =>
                  Unwrap(offer').name # Some(t) ]_vars

\* C31 as stated: the raw offer of an offer element without an `available`
\* attribute does not carry the value an attribute saying not-available gives,
\* nor the one an attribute saying available gives: it is a third value.
C31_MissingAvailabilityIsUnspecified ==
    (pc = "inner" /\ hist.lit = None) =>
        Unwrap(offer).available \notin {AVAILABLE, NOT_AVAILABLE}

\* C32 as stated: reading an offer element that carries an id, written with an
\* opening and a closing tag or self-closing, whose attributes can be read and
\* whose availability literal is known (the run does not end at the tag),
\* completes exactly one raw offer: total_offers grows by one and no
\* offer is left open to take in the elements that follow.
C32_EveryIdentifiedElementYieldsOneOffer ==
    [][ (hist'.id_elems = hist.id_elems + 1 /\ pc' # "fatal") =>
            /\ stat'.total_offers = stat.total_offers + 1
            /\ pc' # "inner"
            /\ offer' = None ]_vars

====
